---- MODULE Spec2Model ----
(***************************************************************************)
(* Model of telegram_perplexity_bot.py: the per-chat conversation history  *)
(* (context.chat_data['history']), the message handler handle_message, the *)
(* completion client get_perplexity_response with its retry loop, the      *)
(* usage counters and the command handlers.                                *)
(*                                                                         *)
(* Strings are sequences of characters.  A character is a one-character    *)
(* string; a non-ASCII character is written "uXXXX" (its code point).      *)
(***************************************************************************)
EXTENDS Integers, Sequences, FiniteSets, TLC

(***************************************************************************)
(* Configuration (lines 39-50).  The two history limits are scaled down    *)
(* (source: 30 messages, 3500 tokens) so that histories at the limits are  *)
(* reached in a few messages; the system prompt is abbreviated to match.   *)
(***************************************************************************)
MAX_OUTPUT_LENGTH == 1000
MAX_HISTORY_MESSAGES == 3
MAX_HISTORY_TOKENS_ESTIMATE == 10
max_retries == 3
\* REQUEST_COST = 0.005 dollars, in micro-dollars
REQUEST_COST == 5000
\* TOKEN_COST_PER_MILLION = 1.0 dollar per 10^6 tokens = micro-dollars per token
TOKEN_COST_PER_MILLION == 1

\* New user messages are taken while fewer than MaxRequests API requests were counted.
MaxRequests == 2

Handlers == {"h1", "h2"}
Chats == {"A", "B"}

SYSTEM_PROMPT == <<"Y","o","u"," ","a","r","e"," ","A","l","p","h","y",".">>
Message(role, content) == [role |-> role, content |-> content]
SYSTEM_PROMPT_MESSAGE == Message("system", SYSTEM_PROMPT)

(***************************************************************************)
(* Fixed reply strings of the source.                                      *)
(***************************************************************************)
NEED_MESSAGE == <<"I"," ","n","e","e","d"," ","a"," ","m","e","s","s","a","g","e"," ","f","r","o","m"," ","y","o","u"," ","t","o"," ","r","e","s","p","o","n","d","!">>
TIMEOUT_REPLY == <<"S","o","r","r","y",","," ","t","h","e"," ","r","e","q","u","e","s","t"," ","t","i","m","e","d"," ","o","u","t","."," ","P","l","e","a","s","e"," ","t","r","y"," ","a","g","a","i","n"," ","l","a","t","e","r",".">>
REQUEST_ERROR_REPLY == <<"S","o","r","r","y",","," ","I"," ","e","n","c","o","u","n","t","e","r","e","d"," ","a","n"," ","e","r","r","o","r"," ","w","h","e","n"," ","t","r","y","i","n","g"," ","t","o"," ","p","r","o","c","e","s","s"," ","y","o","u","r"," ","r","e","q","u","e","s","t","."," ","P","l","e","a","s","e"," ","t","r","y"," ","a","g","a","i","n"," ","l","a","t","e","r",".">>
PARSING_ERROR_REPLY == <<"S","o","r","r","y",","," ","I"," ","h","a","d"," ","t","r","o","u","b","l","e"," ","u","n","d","e","r","s","t","a","n","d","i","n","g"," ","t","h","e"," ","r","e","s","p","o","n","s","e","."," ","P","l","e","a","s","e"," ","t","r","y"," ","a","g","a","i","n"," ","l","a","t","e","r",".">>
UNEXPECTED_ERROR_REPLY == <<"S","o","r","r","y",","," ","a","n"," ","u","n","e","x","p","e","c","t","e","d"," ","e","r","r","o","r"," ","o","c","c","u","r","r","e","d","."," ","P","l","e","a","s","e"," ","t","r","y"," ","a","g","a","i","n"," ","l","a","t","e","r",".">>
RESET_NOTICE == <<"u26a0","ufe0f"," ","C","o","n","v","e","r","s","a","t","i","o","n"," ","h","i","s","t","o","r","y"," ","b","e","c","a","m","e"," ","t","o","o"," ","l","o","n","g"," ","a","n","d"," ","h","a","s"," ","b","e","e","n"," ","r","e","s","e","t","."," ","P","l","e","a","s","e"," ","s","e","n","d"," ","y","o","u","r"," ","m","e","s","s","a","g","e"," ","a","g","a","i","n"," ","t","o"," ","c","o","n","t","i","n","u","e",".">>
TOO_LONG_NOTICE == <<"C","o","n","v","e","r","s","a","t","i","o","n"," ","h","i","s","t","o","r","y"," ","b","e","c","a","m","e"," ","t","o","o"," ","l","o","n","g",","," ","p","l","e","a","s","e"," ","r","e","s","e","t"," ","c","h","a","t"," ","t","o"," ","c","o","n","t","i","n","u","e",".">>
TRUNCATION_SUFFIX == <<"\n","\n","*","[","R","e","s","p","o","n","s","e"," ","t","r","u","n","c","a","t","e","d"," ","d","u","e"," ","t","o"," ","l","e","n","g","t","h",".",".",".","]","*">>
SORRY_PREFIX == <<"S","o","r","r","y",",">>

(***************************************************************************)
(* Inputs: the texts users send, and what the remote API answers.          *)
(***************************************************************************)
Texts == { <<"H","i">>,
           <<"w","h","y","?">>,
           <<"w","h","a","t"," ","i","s"," ","t","h","e"," ","m","o","o","n","?">>,
           <<"p","l","e","a","s","e"," ","e","x","p","l","a","i","n"," ","h","o","w"," ","t","h","e"," ","t","i","d","e","s"," ","f","o","l","l","o","w"," ","t","h","e"," ","m","o","o","n">> }
Replies == { <<"4","2",".">>, <<"S","o","r","r","y",","," ","n","o",".">> }
NoUsage == [present |-> FALSE, prompt_tokens |-> 0, completion_tokens |-> 0]
Usages == { NoUsage, [present |-> TRUE, prompt_tokens |-> 100, completion_tokens |-> 50] }
\* stats tells how far the statistics of lines 168-185 got before the attempt
\* ended: "none" (nothing was decoded), "requests" (line 168 only: the usage
\* entry broke lines 172-176) or "all".
Outcomes ==
    [kind : {"ok"}, content : Replies, usage : Usages, stats : {"all"}]
    \cup [kind : {"malformed"}, content : {<<>>}, usage : Usages, stats : {"all"}]
    \cup [kind : {"timeout", "transport"}, content : {<<>>}, usage : {NoUsage}, stats : {"none"}]
    \cup [kind : {"unexpected"}, content : {<<>>}, usage : {NoUsage}, stats : {"none", "requests"}]
    \cup [kind : {"unexpected"}, content : {<<>>}, usage : Usages, stats : {"all"}]
(***************************************************************************)
(* String helpers: the Python str operations the source uses.              *)
(***************************************************************************)
Max2(a, b) == IF a > b THEN a ELSE b
Min2(a, b) == IF a < b THEN a ELSE b
\* text[:n]
Prefix(s, n) == SubSeq(s, 1, Min2(n, Len(s)))
\* s.startswith(p)
StartsWith(s, p) == Len(s) >= Len(p) /\ SubSeq(s, 1, Len(p)) = p
\* p in s
Contains(s, p) == \E i \in 0..(Len(s) - Len(p)) : SubSeq(s, i + 1, i + Len(p)) = p
\* s.rfind(c) for a single character c: 0-based index of the last occurrence, or -1
RFind(s, c) ==
    IF \E i \in 1..Len(s) : s[i] = c
    THEN (CHOOSE i \in 1..Len(s) : s[i] = c /\ \A j \in (i + 1)..Len(s) : s[j] # c) - 1
    ELSE -1
\* lst[-n:] for 0 < n
LastN(lst, n) == SubSeq(lst, Max2(1, Len(lst) - n + 1), Len(lst))
IsPrefixOf(a, b) == Len(a) <= Len(b) /\ SubSeq(b, 1, Len(a)) = a

(***************************************************************************)
(* estimate_tokens (lines 72-76): total characters, integer-divided by 4.  *)
(***************************************************************************)
RECURSIVE TotalChars(_)
TotalChars(messages) ==
    IF messages = <<>> THEN 0
    ELSE Len(Head(messages).content) + TotalChars(Tail(messages))

estimate_tokens(messages) == TotalChars(messages) \div 4

(***************************************************************************)
(* truncate_text (lines 205-217).  The characters are tried in the order   *)
(* of the list and the first one whose last occurrence lies past 70% of    *)
(* max_length is the cut.                                                  *)
(***************************************************************************)
BreakChars == << ".", "!", "?", "\n" >>

RECURSIVE TruncateFrom(_, _, _)
TruncateFrom(text, max_length, k) ==
    IF k > Len(BreakChars) THEN Prefix(text, max_length) \o TRUNCATION_SUFFIX
    ELSE LET last_complete == RFind(Prefix(text, max_length), BreakChars[k])
         IN  IF 10 * last_complete > 7 * max_length
             THEN Prefix(text, last_complete + 1) \o TRUNCATION_SUFFIX
             ELSE TruncateFrom(text, max_length, k + 1)

truncate_text(text, max_length) ==
    IF Len(text) <= max_length THEN text ELSE TruncateFrom(text, max_length, 1)
(***************************************************************************)
(* str.lower() and str.strip() over the Latin and Cyrillic letters.        *)
(***************************************************************************)
UpperToLower ==
    "A" :> "a" @@ "B" :> "b" @@ "C" :> "c" @@ "D" :> "d" @@ "E" :> "e" @@ "F" :> "f" @@
    "G" :> "g" @@ "H" :> "h" @@ "I" :> "i" @@ "J" :> "j" @@ "K" :> "k" @@ "L" :> "l" @@
    "M" :> "m" @@ "N" :> "n" @@ "O" :> "o" @@ "P" :> "p" @@ "Q" :> "q" @@ "R" :> "r" @@
    "S" :> "s" @@ "T" :> "t" @@ "U" :> "u" @@ "V" :> "v" @@ "W" :> "w" @@ "X" :> "x" @@
    "Y" :> "y" @@ "Z" :> "z" @@ "u0410" :> "u0430" @@ "u0411" :> "u0431" @@ "u0412" :> "u0432" @@ "u0413" :> "u0433" @@
    "u0414" :> "u0434" @@ "u0415" :> "u0435" @@ "u0416" :> "u0436" @@ "u0417" :> "u0437" @@ "u0418" :> "u0438" @@ "u0419" :> "u0439" @@
    "u041a" :> "u043a" @@ "u041b" :> "u043b" @@ "u041c" :> "u043c" @@ "u041d" :> "u043d" @@ "u041e" :> "u043e" @@ "u041f" :> "u043f" @@
    "u0420" :> "u0440" @@ "u0421" :> "u0441" @@ "u0422" :> "u0442" @@ "u0423" :> "u0443" @@ "u0424" :> "u0444" @@ "u0425" :> "u0445" @@
    "u0426" :> "u0446" @@ "u0427" :> "u0447" @@ "u0428" :> "u0448" @@ "u0429" :> "u0449" @@ "u042a" :> "u044a" @@ "u042b" :> "u044b" @@
    "u042c" :> "u044c" @@ "u042d" :> "u044d" @@ "u042e" :> "u044e" @@ "u042f" :> "u044f" @@ "u0401" :> "u0451"
LowerChar(c) == IF c \in DOMAIN UpperToLower THEN UpperToLower[c] ELSE c
Lower(s) == [i \in 1..Len(s) |-> LowerChar(s[i])]
Whitespace == { " ", "\t", "\n", "\r", "\f" }
Strip(s) ==
    IF \A i \in 1..Len(s) : s[i] \in Whitespace THEN <<>>
    ELSE LET first == CHOOSE i \in 1..Len(s) :
                          s[i] \notin Whitespace /\ \A j \in 1..(i - 1) : s[j] \in Whitespace
             last  == CHOOSE i \in 1..Len(s) :
                          s[i] \notin Whitespace /\ \A j \in (i + 1)..Len(s) : s[j] \in Whitespace
         IN  SubSeq(s, first, last)
\* any(p in s for p in phrases)
ContainsAny(s, phrases) == \E p \in phrases : Contains(s, p)

(***************************************************************************)
(* The local handlers of handle_message (lines 273-352): the phrase lists  *)
(* and the canned replies, group by group.                                 *)
(***************************************************************************)
GOYDA == <<"u0433","u043e","u0439","u0434","u0430">>
GOYDA_REPLY == <<"u0413","u043e","u0439","u0434","u0430",","," ","u0431","u0440","u0430","u0442","!">>
IDENTITY_PHRASES ==
    { <<"w","h","o"," ","a","r","e"," ","y","o","u">>,
      <<"w","h","a","t"," ","a","r","e"," ","y","o","u">>,
      <<"t","e","l","l"," ","m","e"," ","a","b","o","u","t"," ","y","o","u","r","s","e","l","f">>,
      <<"w","h","a","t","'","s"," ","y","o","u","r"," ","n","a","m","e">>,
      <<"y","o","u","r"," ","p","u","r","p","o","s","e">>,
      <<"u043a","u0442","u043e"," ","u0442","u044b">>,
      <<"u0442","u044b"," ","u043a","u0442","u043e">>,
      <<"u0447","u0442","u043e"," ","u0442","u044b"," ","u0442","u0430","u043a","u043e","u0435">>,
      <<"u043a","u0430","u043a"," ","u0442","u0435","u0431","u044f"," ","u0437","u043e","u0432","u0443","u0442">>,
      <<"u0440","u0430","u0441","u0441","u043a","u0430","u0436","u0438"," ","u043e"," ","u0441","u0435","u0431","u0435">>,
      <<"u0447","u0442","u043e"," ","u0442","u044b"," ","u0443","u043c","u0435","u0435","u0448","u044c">>,
      <<"w","h","a","t"," ","c","a","n"," ","y","o","u"," ","d","o">>,
      <<"u0442","u0432","u043e","u0438"," ","u0432","u043e","u0437","u043c","u043e","u0436","u043d","u043e","u0441","u0442","u0438">>,
      <<"u0442","u0432","u043e","u0438"," ","u0444","u0443","u043d","u043a","u0446","u0438","u0438">>,
      <<"u0447","u0442","u043e"," ","u0442","u044b"," ","u0434","u0435","u043b","u0430","u0435","u0448","u044c">>,
      <<"u0434","u043b","u044f"," ","u0447","u0435","u0433","u043e"," ","u0442","u044b"," ","u043d","u0443","u0436","u043d","u0430">>,
      <<"u0434","u043b","u044f"," ","u0447","u0435","u0433","u043e"," ","u0442","u044b"," ","u043d","u0443","u0436","u0435","u043d">>,
      <<"u043a","u0430","u043a","u043e","u0432","u0430"," ","u0442","u0432","u043e","u044f"," ","u0446","u0435","u043b","u044c">>,
      <<"u0442","u0432","u043e","u044f"," ","u0437","u0430","u0434","u0430","u0447","u0430">>,
      <<"u0442","u0432","u043e","u0435"," ","u043f","u0440","u0435","u0434","u043d","u0430","u0437","u043d","u0430","u0447","u0435","u043d","u0438","u0435">> }
IDENTITY_RUSSIAN ==
    { <<"u043a","u0442","u043e"," ","u0442","u044b">>,
      <<"u0442","u044b"," ","u043a","u0442","u043e">>,
      <<"u0447","u0442","u043e"," ","u0442","u044b"," ","u0442","u0430","u043a","u043e","u0435">>,
      <<"u043a","u0430","u043a"," ","u0442","u0435","u0431","u044f"," ","u0437","u043e","u0432","u0443","u0442">>,
      <<"u0440","u0430","u0441","u0441","u043a","u0430","u0436","u0438"," ","u043e"," ","u0441","u0435","u0431","u0435">>,
      <<"u0447","u0442","u043e"," ","u0442","u044b"," ","u0443","u043c","u0435","u0435","u0448","u044c">>,
      <<"u0442","u0432","u043e","u0438"," ","u0432","u043e","u0437","u043c","u043e","u0436","u043d","u043e","u0441","u0442","u0438">>,
      <<"u0442","u0432","u043e","u0438"," ","u0444","u0443","u043d","u043a","u0446","u0438","u0438">>,
      <<"u0447","u0442","u043e"," ","u0442","u044b"," ","u0434","u0435","u043b","u0430","u0435","u0448","u044c">>,
      <<"u0434","u043b","u044f"," ","u0447","u0435","u0433","u043e"," ","u0442","u044b"," ","u043d","u0443","u0436","u043d","u0430">>,
      <<"u0434","u043b","u044f"," ","u0447","u0435","u0433","u043e"," ","u0442","u044b"," ","u043d","u0443","u0436","u0435","u043d">>,
      <<"u043a","u0430","u043a","u043e","u0432","u0430"," ","u0442","u0432","u043e","u044f"," ","u0446","u0435","u043b","u044c">>,
      <<"u0442","u0432","u043e","u044f"," ","u0437","u0430","u0434","u0430","u0447","u0430">>,
      <<"u0442","u0432","u043e","u0435"," ","u043f","u0440","u0435","u0434","u043d","u0430","u0437","u043d","u0430","u0447","u0435","u043d","u0438","u0435">> }
IDENTITY_REPLY_RU == <<"u042f"," ","u043c","u043e","u0434","u0435","u043b","u044c","-","u0442","u0440","u0430","u043d","u0441","u0444","u043e","u0440","u043c","u0435","u0440",","," ","u0441","u043e","u0437","u0434","u0430","u043d","u043d","u0430","u044f"," ","u043d","u0430"," ","u043e","u0441","u043d","u043e","u0432","u0435"," ","L","l","a","m","a"," ","3",".","3"," ","7","0","B"," ","u0438"," ","u0434","u043e","u043f","u043e","u043b","u043d","u0435","u043d","u043d","u0430","u044f"," ","u0444","u0443","u043d","u0446","u0438","u044f","u043c","u0438"," ","u043f","u043e","u0438","u0441","u043a","u0430"," ","u0432"," ","u0438","u043d","u0442","u0435","u0440","u043d","u0435","u0442","u0435","."," ","u042f"," ","u043e","u0442","u0432","u0435","u0447","u0430","u044e"," ","u043d","u0430"," ","u0432","u0430","u0448","u0438"," ","u0432","u043e","u043f","u0440","u043e","u0441","u044b"," ","u0438","u0441","u043f","u043e","u043b","u044c","u0437","u0443","u044f"," ","u043f","u043e","u0438","u0441","u043a"," ","u0432"," ","u0438","u043d","u0442","u0435","u0440","u043d","u0435","u0442","u0435",".">>
IDENTITY_REPLY_EN == <<"I"," ","a","m"," ","a","n"," ","A","I"," ","a","s","s","i","s","t","a","n","t","."," ","I"," ","c","a","n"," ","a","n","s","w","e","r"," ","q","u","e","s","t","i","o","n","s"," ","a","n","d"," ","p","r","o","v","i","d","e"," ","i","n","f","o","r","m","a","t","i","o","n"," ","b","a","s","e","d"," ","o","n"," ","m","y"," ","a","v","a","i","l","a","b","l","e"," ","d","a","t","a"," ","a","n","d"," ","c","o","n","v","e","r","s","a","t","i","o","n"," ","h","i","s","t","o","r","y",".">>
GREETINGS ==
    { <<"h","e","l","l","o">>,
      <<"h","i">>,
      <<"h","e","y">>,
      <<"h","o","w","d","y">>,
      <<"h","o","l","a">>,
      <<"g","r","e","e","t","i","n","g","s">>,
      <<"g","o","o","d"," ","m","o","r","n","i","n","g">>,
      <<"g","o","o","d"," ","a","f","t","e","r","n","o","o","n">>,
      <<"g","o","o","d"," ","e","v","e","n","i","n","g">>,
      <<"u043f","u0440","u0438","u0432","u0435","u0442">>,
      <<"u043f","u0440","u0438","u0432">>,
      <<"u0437","u0434","u0430","u0440","u043e","u0432","u0430">>,
      <<"u0437","u0434","u0440","u0430","u0432","u0441","u0442","u0432","u0443","u0439">>,
      <<"u0417","u0434","u0440","u0430","u0432","u0441","u0442","u0432","u0443","u0439","!">>,
      <<"u0437","u0434","u0440","u0430","u0432","u0441","u0442","u0432","u0443","u0439","u0442","u0435">>,
      <<"u0434","u043e","u0431","u0440","u043e","u0435"," ","u0443","u0442","u0440","u043e">>,
      <<"u0434","u043e","u0431","u0440","u044b","u0439"," ","u0434","u0435","u043d","u044c">>,
      <<"u0434","u043e","u0431","u0440","u044b","u0439"," ","u0432","u0435","u0447","u0435","u0440">> }
GREETING_RUSSIAN == { <<"u043f","u0440","u0438","u0432","u0435","u0442">>,
                      <<"u0437","u0434","u0440","u0430","u0432","u0441","u0442","u0432","u0443","u0439">>,
                      <<"u0434","u043e","u0431","u0440","u043e","u0435">>,
                      <<"u0434","u043e","u0431","u0440","u044b","u0439">> }
HELLO == <<"h","e","l","l","o">>
FAREWELLS ==
    { <<"b","y","e">>,
      <<"g","o","o","d","b","y","e">>,
      <<"s","e","e"," ","y","o","u">>,
      <<"s","e","e"," ","y","a">>,
      <<"l","a","t","e","r">>,
      <<"c","y","a">>,
      <<"u043f","u043e","u043a","u0430">>,
      <<"u0434","u043e"," ","u0441","u0432","u0438","u0434","u0430","u043d","u0438","u044f">>,
      <<"u0443","u0432","u0438","u0434","u0438","u043c","u0441","u044f">>,
      <<"u043f","u0440","u043e","u0449","u0430","u0439">>,
      <<"u0434","u043e"," ","u0432","u0441","u0442","u0440","u0435","u0447","u0438">> }
FAREWELL_RUSSIAN == { <<"u043f","u043e","u043a","u0430">>,
                      <<"u0434","u043e"," ","u0441","u0432","u0438","u0434","u0430","u043d","u0438","u044f">>,
                      <<"u043f","u0440","u043e","u0449","u0430","u0439">> }
THANKS ==
    { <<"t","h","a","n","k","s">>,
      <<"t","h","a","n","k"," ","y","o","u">>,
      <<"t","h","x">>,
      <<"t","y">>,
      <<"t","h","a","n","k"," ","y","o","u"," ","v","e","r","y"," ","m","u","c","h">>,
      <<"t","h","a","n","k","s"," ","a"," ","l","o","t">>,
      <<"u0441","u043f","u0430","u0441","u0438","u0431","u043e">>,
      <<"u0441","u043f","u0441">>,
      <<"u0431","u043b","u0430","u0433","u043e","u0434","u0430","u0440","u044e">>,
      <<"u0441","u043f","u0430","u0441","u0438","u0431","u043e"," ","u0431","u043e","u043b","u044c","u0448","u043e","u0435">>,
      <<"u043e","u0433","u0440","u043e","u043c","u043d","u043e","u0435"," ","u0441","u043f","u0430","u0441","u0438","u0431","u043e">> }
THANKS_RUSSIAN == { <<"u0441","u043f","u0430","u0441","u0438","u0431","u043e">>,
                    <<"u0441","u043f","u0441">>,
                    <<"u0431","u043b","u0430","u0433","u043e","u0434","u0430","u0440","u044e">> }
AFFIRMATIONS ==
    { <<"o","k">>,
      <<"o","k","a","y">>,
      <<"g","o","t"," ","i","t">>,
      <<"u","n","d","e","r","s","t","o","o","d">>,
      <<"f","i","n","e">>,
      <<"a","l","r","i","g","h","t">>,
      <<"y","e","s">>,
      <<"y","e","p">>,
      <<"y","e","a","h">>,
      <<"u0445","u043e","u0440","u043e","u0448","u043e">>,
      <<"u043e","u043a","u0435","u0439">>,
      <<"u043b","u0430","u0434","u043d","u043e">>,
      <<"u043f","u043e","u043d","u044f","u043b">>,
      <<"u043f","u043e","u043d","u044f","u043b","u0430">>,
      <<"u043f","u043e","u043d","u044f","u0442","u043d","u043e">>,
      <<"u0434","u0430">>,
      <<"u0430","u0433","u0430">> }
AFFIRMATION_RUSSIAN ==
    { <<"u0445","u043e","u0440","u043e","u0448","u043e">>,
      <<"u043e","u043a","u0435","u0439">>,
      <<"u043b","u0430","u0434","u043d","u043e">>,
      <<"u043f","u043e","u043d","u044f","u043b">>,
      <<"u043f","u043e","u043d","u044f","u043b","u0430">>,
      <<"u043f","u043e","u043d","u044f","u0442","u043d","u043e">>,
      <<"u0434","u0430">>,
      <<"u0430","u0433","u0430">> }
NEGATIONS == { <<"n","o">>,
               <<"n","o","p","e">>,
               <<"n","a","h">>,
               <<"n","o","t"," ","r","e","a","l","l","y">>,
               <<"u043d","u0435","u0442">>,
               <<"u043d","u0435","u0430">>,
               <<"u043d","u0435">> }
NEGATION_RUSSIAN == { <<"u043d","u0435","u0442">>,
                      <<"u043d","u0435","u0430">>,
                      <<"u043d","u0435">> }
STATEMENT_RUSSIAN == { <<"u043c","u0435","u043d","u044f">>,
                       <<"u0437","u043e","u0432","u0443","u0442">>,
                       <<"u0436","u0438","u0432","u0443">>,
                       <<"u043b","u0435","u0442">>,
                       <<"u0433","u043e","u0434">> }

IsStatement(q) ==
    \/ StartsWith(q, <<"m","y"," ","n","a","m","e"," ","i","s">>)
    \/ StartsWith(q, <<"i"," ","a","m">>)
    \/ StartsWith(q, <<"i"," ","l","i","v","e"," ","i","n">>)
    \/ StartsWith(q, <<"i","'","m">>)
    \/ StartsWith(q, <<"u043c","u0435","u043d","u044f"," ","u0437","u043e","u0432","u0443","u0442">>)
    \/ StartsWith(q, <<"u044f"," ","u0436","u0438","u0432","u0443"," ","u0432">>)
    \/ (StartsWith(q, <<"u043c","u043d","u0435">>) /\ (Contains(q, <<"u043b","u0435","u0442">>) \/ Contains(q, <<"u0433","u043e","u0434">>)))
    \/ StartsWith(q, <<"u044f"," ","-">>)
    \/ StartsWith(q, <<"u044f"," ","u2014">>)

Handled(text) == [handled_locally |-> TRUE, response_text |-> text]
NotHandled == [handled_locally |-> FALSE, response_text |-> <<>>]

\* The elif branches of lines 286-352, in their order.
CannedResponse(lower_query) ==
    IF ContainsAny(lower_query, IDENTITY_PHRASES)
    THEN Handled(IF ContainsAny(lower_query, IDENTITY_RUSSIAN)
                 THEN IDENTITY_REPLY_RU ELSE IDENTITY_REPLY_EN)
    ELSE IF lower_query \in GREETINGS \/ StartsWith(lower_query, HELLO)
    THEN Handled(IF ContainsAny(lower_query, GREETING_RUSSIAN)
                 THEN <<"u041f","u0440","u0438","u0432","u0435","u0442","!">> ELSE <<"H","e","l","l","o","!">>)
    ELSE IF lower_query \in FAREWELLS
    THEN Handled(IF ContainsAny(lower_query, FAREWELL_RUSSIAN)
                 THEN <<"u0414","u043e"," ","u0441","u0432","u0438","u0434","u0430","u043d","u0438","u044f","!">> ELSE <<"G","o","o","d","b","y","e","!">>)
    ELSE IF lower_query \in THANKS
    THEN Handled(IF ContainsAny(lower_query, THANKS_RUSSIAN)
                 THEN <<"u041f","u043e","u0436","u0430","u043b","u0443","u0439","u0441","u0442","u0430",".">> ELSE <<"Y","o","u","'","r","e"," ","w","e","l","c","o","m","e",".">>)
    ELSE IF lower_query \in AFFIRMATIONS
    THEN Handled(IF ContainsAny(lower_query, AFFIRMATION_RUSSIAN)
                 THEN <<"u041e","u043a",".">> ELSE <<"O","k","a","y",".">>)
    ELSE IF lower_query \in NEGATIONS
    THEN Handled(IF ContainsAny(lower_query, NEGATION_RUSSIAN)
                 THEN <<"u041f","u043e","u043d","u044f","u0442","u043d","u043e",".">> ELSE <<"U","n","d","e","r","s","t","o","o","d",".">>)
    ELSE IF IsStatement(lower_query)
    THEN Handled(IF ContainsAny(lower_query, STATEMENT_RUSSIAN)
                 THEN <<"u041f","u043e","u043d","u044f","u0442","u043d","u043e",".">> ELSE <<"N","o","t","e","d",".">>)
    ELSE NotHandled

\* Variant of LocalResponse: the special case is tried after the others.
LocalResponse_SpecialCaseLast(user_message) ==
    LET lower_query == Strip(Lower(user_message)) IN
    IF CannedResponse(lower_query).handled_locally THEN CannedResponse(lower_query)
    ELSE IF Contains(lower_query, GOYDA) THEN Handled(GOYDA_REPLY)
    ELSE NotHandled
\* The if/elif chain of lines 274-352 on lower_query = user_message.lower().strip()
LocalResponse(user_message) ==
    LET lower_query == Strip(Lower(user_message)) IN
    IF Contains(lower_query, GOYDA) THEN Handled(GOYDA_REPLY)
    ELSE CannedResponse(lower_query)
(***************************************************************************)
(* State.                                                                  *)
(*   chat_data      context.chat_data['history'] per chat: a function      *)
(*                  whose domain is the chats that have the key            *)
(*   total_requests, total_tokens, estimated_cost   the usage counters     *)
(*                  (estimated_cost in micro-dollars)                      *)
(*   pc             where each running handle_message coroutine stands     *)
(*   chat, user_message, history, history_reset_needed, handled_locally,   *)
(*   response_text, retry_count    the locals of handle_message and of the *)
(*                  get_perplexity_response call it makes                  *)
(*   prior          the stored history handle_message read at line 231     *)
(*   attempts       the outcome of each requests.post call made for the    *)
(*                  message, in order                                      *)
(*   slept          the time.sleep delays of the call, in order            *)
(*   reported       the usage entry of the response decoded by the last    *)
(*                  attempt of the call                                    *)
(*   sent           the reply texts sent for the message, in order         *)
(*   last_command   the command handler that ran since the last text       *)
(*                  message arrived                                        *)
(***************************************************************************)
VARIABLES chat_data, total_requests, total_tokens, estimated_cost,
          pc, chat, user_message, history, history_reset_needed,
          handled_locally, response_text, retry_count,
          prior, attempts, reported, slept, sent, last_command

\* The values of last_command.
Command(c, name) == [chat |-> c, name |-> name]
NoCommand == Command("A", "none")

counters == << total_requests, total_tokens, estimated_cost >>
locals == << chat, user_message, history, history_reset_needed, handled_locally,
             response_text, retry_count, prior, attempts, reported, slept, sent >>
vars == << chat_data, total_requests, total_tokens, estimated_cost,
           pc, chat, user_message, history, history_reset_needed,
           handled_locally, response_text, retry_count,
           prior, attempts, reported, slept, sent, last_command >>

\* Variant of SyncPCs: the request and the sleep give the event loop away.
SyncPCs_None == {}
\* Positions inside the stretch of handle_message that runs without an await
\* (lines 231-366; requests.post and time.sleep block the event loop).
SyncPCs == { "route", "complete", "post", "backoff", "append" }
\* The event loop runs one coroutine at a time, up to its next await.
LoopFree(h) == \A g \in Handlers \ {h} : pc[g] \notin SyncPCs
NoneRunning == \A g \in Handlers : pc[g] \notin SyncPCs

Init ==
    /\ chat_data = [c \in {} |-> << >>]
    /\ total_requests = 0
    /\ total_tokens = 0
    /\ estimated_cost = 0
    /\ pc = [h \in Handlers |-> "idle"]
    /\ chat = [h \in Handlers |-> "A"]
    /\ user_message = [h \in Handlers |-> <<>>]
    /\ history = [h \in Handlers |-> <<>>]
    /\ history_reset_needed = [h \in Handlers |-> FALSE]
    /\ handled_locally = [h \in Handlers |-> FALSE]
    /\ response_text = [h \in Handlers |-> <<>>]
    /\ retry_count = [h \in Handlers |-> 0]
    /\ prior = [h \in Handlers |-> <<>>]
    /\ attempts = [h \in Handlers |-> <<>>]
    /\ reported = [h \in Handlers |-> NoUsage]
    /\ last_command = NoCommand
    /\ slept = [h \in Handlers |-> <<>>]
    /\ sent = [h \in Handlers |-> <<>>]

(***************************************************************************)
(* chat_data as a dict keyed by chat.                                      *)
(***************************************************************************)
\* Variant of Store: one history shared by all chats.
Store_Shared(c, value) == [x \in (DOMAIN chat_data) \cup {c} |-> value]
\* chat_data['history'] = value
Store(c, value) ==
    [x \in (DOMAIN chat_data) \cup {c} |-> IF x = c THEN value ELSE chat_data[x]]
\* Variant of Pop: the entry is left in place.
Pop_KeepsEntry(c) == chat_data
\* chat_data.pop('history', None)
Pop(c) == [x \in (DOMAIN chat_data) \ {c} |-> chat_data[x]]
\* chat_data.setdefault('history', [SYSTEM_PROMPT_MESSAGE])   (line 231)
Setdefault(c) == IF c \in DOMAIN chat_data THEN chat_data[c] ELSE << SYSTEM_PROMPT_MESSAGE >>

(***************************************************************************)
(* The history limits of handle_message (lines 234-269).                   *)
(***************************************************************************)
\* history + [{"role": "user", "content": user_message}]   (line 234)
PotentialNextHistory(hist, text) == hist \o << Message("user", text) >>
\* Variants of Trimmed: a slice that starts one entry early and so leaves
\* the system message out, and one that keeps one entry too few.
Trimmed_DropsSystem(p) == LastN(p, MAX_HISTORY_MESSAGES + 1)
Trimmed_OffByOne(p) == << p[1] >> \o LastN(p, MAX_HISTORY_MESSAGES - 1)
\* [p[0]] + p[-(MAX_HISTORY_MESSAGES):]   (line 251)
Trimmed(p) == << p[1] >> \o LastN(p, MAX_HISTORY_MESSAGES)
OverTokens(p) == estimate_tokens(p) > MAX_HISTORY_TOKENS_ESTIMATE
OverCount(p) == Len(p) > MAX_HISTORY_MESSAGES + 1
\* Variant of BoundedHistory: the count limit is not applied.
BoundedHistory_Untrimmed(p) == p
\* Variant of BoundedHistory: the trim keeps only the newest entry.
BoundedHistory_KeepsNewest(p) ==
    IF OverTokens(p) THEN p
    ELSE IF OverCount(p) THEN << p[1], p[Len(p)] >>
    ELSE p
\* potential_next_history after lines 243-257
BoundedHistory(p) ==
    IF OverTokens(p) THEN p
    ELSE IF OverCount(p) THEN Trimmed(p)
    ELSE p
\* Variant of ResetNeeded: a count overflow resets instead of trimming.
ResetNeeded_NoTrim(p) == OverTokens(p) \/ OverCount(p)
\* Variant of ResetNeeded: the count trim comes before the token test.
ResetNeeded_TrimFirst(p) == IF OverCount(p) THEN OverTokens(Trimmed(p)) ELSE OverTokens(p)
\* history_reset_needed after lines 242-257
ResetNeeded(p) ==
    IF OverTokens(p) THEN TRUE
    ELSE IF OverCount(p) THEN OverTokens(Trimmed(p))
    ELSE FALSE

(***************************************************************************)
(* handle_message, step by step.                                           *)
(***************************************************************************)
\* The transport hands a text message of chat c to a new handle_message
\* coroutine (line 397; lines 219-222).
ReceiveMessage(h, c, text) ==
    /\ pc[h] = "idle"
    /\ NoneRunning
    /\ total_requests < MaxRequests
    /\ pc' = [pc EXCEPT ![h] = "typing"]
    /\ chat' = [chat EXCEPT ![h] = c]
    /\ user_message' = [user_message EXCEPT ![h] = text]
    /\ UNCHANGED << chat_data, counters, history, history_reset_needed, handled_locally,
                    response_text, retry_count, prior, attempts, slept, sent, reported >>
    /\ last_command' = NoCommand

\* await update.message.chat.send_action("typing")   (line 225); a failed
\* send raises out of the handler.
SendTyping(h, ok) ==
    /\ pc[h] = "typing"
    /\ NoneRunning
    /\ pc' = [pc EXCEPT ![h] = IF ok THEN "bound" ELSE "raised"]
    /\ UNCHANGED << chat_data, counters, locals, last_command >>

\* Variant of AfterBound: the return of line 265 is missing.
AfterBound_NoReturn(reset) == "route"
\* Line 265 returns after a reset; otherwise the handler goes on at line 273.
AfterBound(reset) == IF reset THEN "reset_notice" ELSE "route"

\* Lines 231-269: read the history, append the user message, apply the
\* limits, and store either the seed (reset) or the bounded history.
BoundHistory(h) ==
    /\ pc[h] = "bound"
    /\ NoneRunning
    /\ LET stored == Setdefault(chat[h])
           potential == PotentialNextHistory(stored, user_message[h])
       IN  /\ prior' = [prior EXCEPT ![h] = stored]
           /\ history_reset_needed' = [history_reset_needed EXCEPT ![h] = ResetNeeded(potential)]
           /\ IF ResetNeeded(potential)
              THEN /\ chat_data' = Store(chat[h], << SYSTEM_PROMPT_MESSAGE >>)
                   /\ history' = [history EXCEPT ![h] = stored]
                   /\ pc' = [pc EXCEPT ![h] = AfterBound(TRUE)]
              ELSE /\ chat_data' = Store(chat[h], BoundedHistory(potential))
                   /\ history' = [history EXCEPT ![h] = BoundedHistory(potential)]
                   /\ pc' = [pc EXCEPT ![h] = AfterBound(FALSE)]
    /\ UNCHANGED << counters, chat, user_message, handled_locally, response_text,
                    retry_count, attempts, slept, sent, reported, last_command >>

\* Lines 262-265: the reset notice, then return.  The send is outside the
\* try block: a failed send raises out of the handler.
SendResetNotice(h, ok) ==
    /\ pc[h] = "reset_notice"
    /\ NoneRunning
    /\ IF ok
       THEN /\ sent' = [sent EXCEPT ![h] = Append(@, RESET_NOTICE)]
            /\ pc' = [pc EXCEPT ![h] = "done"]
       ELSE /\ sent' = sent
            /\ pc' = [pc EXCEPT ![h] = "raised"]
    /\ UNCHANGED << chat_data, counters, chat, user_message, history, history_reset_needed,
                    handled_locally, response_text, retry_count, prior, attempts, slept, reported, last_command >>

\* Lines 273-357: the local handlers; an unhandled message goes to
\* get_perplexity_response(messages=history).
Route(h) ==
    /\ pc[h] = "route"
    /\ LoopFree(h)
    /\ LET r == LocalResponse(user_message[h])
       IN  /\ handled_locally' = [handled_locally EXCEPT ![h] = r.handled_locally]
           /\ response_text' = [response_text EXCEPT ![h] = r.response_text]
           /\ pc' = [pc EXCEPT ![h] = IF r.handled_locally THEN "append" ELSE "complete"]
    /\ UNCHANGED << chat_data, counters, chat, user_message, history, history_reset_needed,
                    retry_count, prior, attempts, slept, sent, reported, last_command >>
(***************************************************************************)
(* get_perplexity_response (lines 122-203), called with messages =         *)
(* history.                                                                *)
(***************************************************************************)
\* Variant of NeedsMessage: only the empty list is refused.
NeedsMessage_EmptyOnly(messages) == messages = <<>>
\* not messages or len(messages) <= 1   (line 136)
NeedsMessage(messages) == messages = <<>> \/ Len(messages) <= 1

\* Lines 135-157: the guard on the message list, then the retry loop starts.
CompleteEntry(h) ==
    /\ pc[h] = "complete"
    /\ LoopFree(h)
    /\ IF NeedsMessage(history[h])
       THEN /\ response_text' = [response_text EXCEPT ![h] = NEED_MESSAGE]
            /\ pc' = [pc EXCEPT ![h] = "append"]
            /\ UNCHANGED retry_count
       ELSE /\ retry_count' = [retry_count EXCEPT ![h] = 0]
            /\ pc' = [pc EXCEPT ![h] = "post"]
            /\ UNCHANGED response_text
    /\ UNCHANGED << chat_data, counters, chat, user_message, history, history_reset_needed,
                    handled_locally, prior, attempts, slept, sent, reported, last_command >>

\* Variant of CountRequest: the completion tokens are left out.
CountRequest_PromptOnly(usage) ==
    /\ total_requests' = total_requests + 1
    /\ total_tokens' = total_tokens + usage.prompt_tokens
    /\ estimated_cost' = estimated_cost + REQUEST_COST
                           + usage.prompt_tokens * TOKEN_COST_PER_MILLION
\* Lines 168-185: the statistics, updated once the response body is read.
CountRequest(usage) ==
    /\ total_requests' = total_requests + 1
    /\ total_tokens' = total_tokens + (usage.prompt_tokens + usage.completion_tokens)
    /\ estimated_cost' = estimated_cost + REQUEST_COST
                           + (usage.prompt_tokens + usage.completion_tokens) * TOKEN_COST_PER_MILLION

\* Variant of UpdateStatistics: the statistics come after the completion
\* text has been read.
UpdateStatistics_AfterContent(o) ==
    IF o.kind = "ok" THEN CountRequest(o.usage) ELSE UNCHANGED counters
\* How far an attempt that does not time out gets through lines 167-185,
\* which come before the completion text is read at line 187.
UpdateStatistics(o) ==
    CASE o.stats = "all" -> CountRequest(o.usage)
      [] o.stats = "requests" -> /\ total_requests' = total_requests + 1
                                 /\ UNCHANGED << total_tokens, estimated_cost >>
      [] o.stats = "none" -> UNCHANGED counters

\* Variant of AfterTimeout: gives up one attempt early.
AfterTimeout_OneShort(count) ==
    IF count >= max_retries - 1
    THEN [pc |-> "append", response_text |-> TIMEOUT_REPLY]
    ELSE [pc |-> "backoff", response_text |-> <<>>]
\* Variant of AfterTimeout: the loop never gives up.
AfterTimeout_NeverGivesUp(count) == [pc |-> "backoff", response_text |-> <<>>]
\* What a timed-out attempt leads to (lines 189-194).
AfterTimeout(count) ==
    IF count >= max_retries
    THEN [pc |-> "append", response_text |-> TIMEOUT_REPLY]
    ELSE [pc |-> "backoff", response_text |-> <<>>]

\* The return value of an attempt that does not time out (lines 187, 195-203).
AttemptResult(o) ==
    CASE o.kind = "ok" -> o.content
      [] o.kind = "malformed" -> PARSING_ERROR_REPLY
      [] o.kind = "transport" -> REQUEST_ERROR_REPLY
      [] o.kind = "unexpected" -> UNEXPECTED_ERROR_REPLY

\* Variant of IsTimeout: every RequestException is retried.
IsTimeout_AnyRequestException(o) == o.kind \in { "timeout", "transport" }
\* The outcomes caught by `except requests.exceptions.Timeout` (line 188),
\* the only clause that stays in the loop.
IsTimeout(o) == o.kind = "timeout"

\* One pass of the loop body (lines 158-203): requests.post with outcome o.
\*   ok          a response with choices[0].message.content
\*   malformed   a response without the expected fields: the KeyError of
\*               line 187 comes after the statistics of lines 168-185
\*   timeout     requests.exceptions.Timeout
\*   transport   another requests.exceptions.RequestException
\*   unexpected  any other exception: of lines 163-165 (stats "none"), of
\*               lines 172-176 on a usage entry that is no object (stats
\*               "requests"), or a TypeError of line 187 (stats "all")
Post(h, o) ==
    /\ pc[h] = "post"
    /\ LoopFree(h)
    /\ retry_count[h] < max_retries
    /\ attempts' = [attempts EXCEPT ![h] = Append(@, o.kind)]
    /\ IF IsTimeout(o)
       THEN /\ retry_count' = [retry_count EXCEPT ![h] = @ + 1]
            /\ pc' = [pc EXCEPT ![h] = AfterTimeout(retry_count[h] + 1).pc]
            /\ response_text' = [response_text EXCEPT ![h] = AfterTimeout(retry_count[h] + 1).response_text]
            /\ UNCHANGED counters
            /\ UNCHANGED reported
       ELSE /\ UpdateStatistics(o)
            /\ reported' = [reported EXCEPT ![h] = o.usage]
            /\ response_text' = [response_text EXCEPT ![h] = AttemptResult(o)]
            /\ pc' = [pc EXCEPT ![h] = "append"]
            /\ UNCHANGED retry_count
    /\ UNCHANGED << chat_data, chat, user_message, history, history_reset_needed,
                    handled_locally, prior, slept, sent, last_command >>

\* Variant of BackoffDelay: the exponent counts from zero.
BackoffDelay_ZeroBased(count) == 2 ^ (count - 1)
\* time.sleep(2 ** retry_count)   (line 194)
BackoffDelay(count) == 2 ^ count

Backoff(h) ==
    /\ pc[h] = "backoff"
    /\ LoopFree(h)
    /\ slept' = [slept EXCEPT ![h] = Append(@, BackoffDelay(retry_count[h]))]
    /\ pc' = [pc EXCEPT ![h] = "post"]
    /\ UNCHANGED << chat_data, counters, chat, user_message, history, history_reset_needed,
                    handled_locally, response_text, retry_count, prior, attempts, sent, reported, last_command >>

(***************************************************************************)
(* handle_message, after the reply text is known.                          *)
(***************************************************************************)
\* Variant of ShouldAppend: the test is inverted.
ShouldAppend_Inverted(text) == StartsWith(text, SORRY_PREFIX)
\* Variant of ShouldAppend: every reply is appended.
ShouldAppend_Always(text) == TRUE
\* not response_text.startswith("Sorry,")   (line 361)
ShouldAppend(text) == ~StartsWith(text, SORRY_PREFIX)

\* Lines 361-366: the assistant turn is appended to history and stored.
AppendAssistant(h) ==
    /\ pc[h] = "append"
    /\ LoopFree(h)
    /\ IF ShouldAppend(response_text[h])
       THEN /\ history' = [history EXCEPT ![h] = Append(@, Message("assistant", response_text[h]))]
            /\ chat_data' = Store(chat[h], Append(history[h], Message("assistant", response_text[h])))
       ELSE UNCHANGED << history, chat_data >>
    /\ pc' = [pc EXCEPT ![h] = "reply"]
    /\ UNCHANGED << counters, chat, user_message, history_reset_needed, handled_locally,
                    response_text, retry_count, prior, attempts, slept, sent, reported, last_command >>

\* Lines 366-373: send the truncated reply; a failed send is caught.
SendReply(h, ok) ==
    /\ pc[h] = "reply"
    /\ NoneRunning
    /\ IF ok
       THEN /\ sent' = [sent EXCEPT ![h] = Append(@, truncate_text(response_text[h], MAX_OUTPUT_LENGTH))]
            /\ pc' = [pc EXCEPT ![h] = "done"]
       ELSE /\ sent' = sent
            /\ pc' = [pc EXCEPT ![h] = "error_notice"]
    /\ UNCHANGED << chat_data, counters, chat, user_message, history, history_reset_needed,
                    handled_locally, response_text, retry_count, prior, attempts, slept, reported, last_command >>

\* Lines 373-381: the notice of the except branch; its own failure is logged.
SendErrorNotice(h, ok) ==
    /\ pc[h] = "error_notice"
    /\ NoneRunning
    /\ sent' = [sent EXCEPT ![h] = IF ok THEN Append(@, TOO_LONG_NOTICE) ELSE @]
    /\ pc' = [pc EXCEPT ![h] = "done"]
    /\ UNCHANGED << chat_data, counters, chat, user_message, history, history_reset_needed,
                    handled_locally, response_text, retry_count, prior, attempts, slept, reported, last_command >>

\* The coroutine ends (it returned at line 265 or after line 372/381, or an
\* exception left it): its frame is gone and the slot is free again.
Finish(h) ==
    /\ pc[h] \in { "done", "raised" }
    /\ NoneRunning
    /\ pc' = [pc EXCEPT ![h] = "idle"]
    /\ chat' = [chat EXCEPT ![h] = "A"]
    /\ user_message' = [user_message EXCEPT ![h] = <<>>]
    /\ history' = [history EXCEPT ![h] = <<>>]
    /\ history_reset_needed' = [history_reset_needed EXCEPT ![h] = FALSE]
    /\ handled_locally' = [handled_locally EXCEPT ![h] = FALSE]
    /\ response_text' = [response_text EXCEPT ![h] = <<>>]
    /\ retry_count' = [retry_count EXCEPT ![h] = 0]
    /\ prior' = [prior EXCEPT ![h] = <<>>]
    /\ attempts' = [attempts EXCEPT ![h] = <<>>]
    /\ slept' = [slept EXCEPT ![h] = <<>>]
    /\ sent' = [sent EXCEPT ![h] = <<>>]
    /\ reported' = [reported EXCEPT ![h] = NoUsage]
    /\ UNCHANGED << chat_data, counters, last_command >>

(***************************************************************************)
(* The command handlers (lines 78-120).  Their replies go to the chat and  *)
(* leave no program state behind; last_command records which one ran.     *)
(***************************************************************************)
start(c) ==
    /\ NoneRunning
    /\ chat_data' = Pop(c)
    /\ last_command' = Command(c, "start")
    /\ UNCHANGED << counters, pc, locals >>

restart(c) ==
    /\ NoneRunning
    /\ chat_data' = Pop(c)
    /\ last_command' = Command(c, "restart")
    /\ UNCHANGED << counters, pc, locals >>

clear_command(c) ==
    /\ NoneRunning
    /\ chat_data' = Pop(c)
    /\ last_command' = Command(c, "clear_command")
    /\ UNCHANGED << counters, pc, locals >>

help_command(c) ==
    /\ NoneRunning
    /\ last_command' = Command(c, "help_command")
    /\ UNCHANGED << chat_data, counters, pc, locals >>

stats_command(c) ==
    /\ NoneRunning
    /\ last_command' = Command(c, "stats_command")
    /\ UNCHANGED << chat_data, counters, pc, locals >>

(***************************************************************************)
(* The dispatcher of main() (lines 386-403) takes one update at a time:    *)
(* a handler runs to its end before the next update is handled.  Spec is   *)
(* that program, for one chat.                                             *)
(***************************************************************************)
\* The steps of one handle_message coroutine, from its first await on.
RunStep(h) ==
    \/ \E ok \in BOOLEAN : SendTyping(h, ok)
    \/ BoundHistory(h)
    \/ \E ok \in BOOLEAN : SendResetNotice(h, ok)
    \/ Route(h)
    \/ CompleteEntry(h)
    \/ \E o \in Outcomes : Post(h, o)
    \/ Backoff(h)
    \/ AppendAssistant(h)
    \/ \E ok \in BOOLEAN : SendReply(h, ok)
    \/ \E ok \in BOOLEAN : SendErrorNotice(h, ok)

HandlerStep(h) == RunStep(h) \/ Finish(h)

AllIdle == \A g \in Handlers : pc[g] = "idle"

Next ==
    \/ \E text \in Texts : ReceiveMessage("h1", "A", text)
    \/ HandlerStep("h1")
    \/ AllIdle /\ start("A")
    \/ AllIdle /\ restart("A")
    \/ AllIdle /\ clear_command("A")
    \/ AllIdle /\ help_command("A")
    \/ AllIdle /\ stats_command("A")

Spec == Init /\ [][Next]_vars

(***************************************************************************)
(* get_perplexity_response called on its own, with any message list: the   *)
(* call starts at line 133 and ends when it returns.                       *)
(***************************************************************************)
DirectMessages == { SYSTEM_PROMPT_MESSAGE,
                    Message("user", <<"w","h","y","?">>),
                    Message("assistant", <<"4","2",".">>) }
MaxDirectLen == 2
DirectHistories == UNION { [1..n -> DirectMessages] : n \in 0..MaxDirectLen }

InitComplete ==
    /\ chat_data = [c \in {} |-> << >>]
    /\ total_requests \in 0..1
    /\ total_tokens = 150 * total_requests
    /\ estimated_cost = (REQUEST_COST + 150 * TOKEN_COST_PER_MILLION) * total_requests
    /\ pc = [h \in Handlers |-> IF h = "h1" THEN "complete" ELSE "idle"]
    /\ chat = [h \in Handlers |-> "A"]
    /\ user_message = [h \in Handlers |-> <<>>]
    /\ \E messages \in DirectHistories :
           history = [h \in Handlers |-> IF h = "h1" THEN messages ELSE <<>>]
    /\ history_reset_needed = [h \in Handlers |-> FALSE]
    /\ handled_locally = [h \in Handlers |-> FALSE]
    /\ response_text = [h \in Handlers |-> <<>>]
    /\ retry_count = [h \in Handlers |-> 0]
    /\ prior = [h \in Handlers |-> <<>>]
    /\ attempts = [h \in Handlers |-> <<>>]
    /\ reported = [h \in Handlers |-> NoUsage]
    /\ last_command = NoCommand
    /\ slept = [h \in Handlers |-> <<>>]
    /\ sent = [h \in Handlers |-> <<>>]

NextComplete ==
    \/ CompleteEntry("h1")
    \/ \E o \in Outcomes : Post("h1", o)
    \/ Backoff("h1")

SpecComplete == InitComplete /\ [][NextComplete]_vars

\* The same call under the scheduling the code gives it: the loop body and
\* the sleep are straight-line code and requests.post returns within its
\* timeout, so a call that can take a step takes one.
SpecCompleteFair == SpecComplete /\ WF_vars(NextComplete)

(***************************************************************************)
(* truncate_text called on its own: the text is in response_text, the      *)
(* result goes to sent.  The texts are TruncateLength + 1 characters long, *)
(* every choice of letter and break character in their last five places,   *)
(* and those five characters alone (short enough to pass unchanged).       *)
(***************************************************************************)
TruncateLength == 10
TruncateAlphabet == { "a", ".", "!", "?", "\n" }
TruncateTails == [1..5 -> TruncateAlphabet]
TruncatePad == [i \in 1..(TruncateLength - 4) |-> "a"]
TruncateTexts == TruncateTails \cup { TruncatePad \o tail : tail \in TruncateTails }

InitTruncate ==
    /\ chat_data = [c \in {} |-> << >>]
    /\ total_requests = 0
    /\ total_tokens = 0
    /\ estimated_cost = 0
    /\ pc = [h \in Handlers |-> IF h = "h1" THEN "reply" ELSE "idle"]
    /\ chat = [h \in Handlers |-> "A"]
    /\ user_message = [h \in Handlers |-> <<>>]
    /\ history = [h \in Handlers |-> <<>>]
    /\ history_reset_needed = [h \in Handlers |-> FALSE]
    /\ handled_locally = [h \in Handlers |-> FALSE]
    /\ \E text \in TruncateTexts :
           response_text = [h \in Handlers |-> IF h = "h1" THEN text ELSE <<>>]
    /\ retry_count = [h \in Handlers |-> 0]
    /\ prior = [h \in Handlers |-> <<>>]
    /\ attempts = [h \in Handlers |-> <<>>]
    /\ reported = [h \in Handlers |-> NoUsage]
    /\ slept = [h \in Handlers |-> <<>>]
    /\ sent = [h \in Handlers |-> <<>>]
    /\ last_command = NoCommand

\* truncate_text(text, max_length)   (lines 205-217)
TruncateCall(h, max_length) ==
    /\ pc[h] = "reply"
    /\ sent' = [sent EXCEPT ![h] = Append(@, truncate_text(response_text[h], max_length))]
    /\ pc' = [pc EXCEPT ![h] = "done"]
    /\ UNCHANGED << chat_data, counters, chat, user_message, history, history_reset_needed,
                    handled_locally, response_text, retry_count, prior, attempts, slept,
                    reported, last_command >>

NextTruncate == TruncateCall("h1", TruncateLength)

SpecTruncate == InitTruncate /\ [][NextTruncate]_vars

(***************************************************************************)
(* Two text messages of one chat whose handlers are in flight together     *)
(* (an Application built with concurrent_updates): each handler is a       *)
(* coroutine and gives the event loop away only at an await that suspends, *)
(* at lines 225, 262, 369 and 377.  get_perplexity_response holds no await *)
(* (requests.post and time.sleep block the loop), so awaiting it does not  *)
(* suspend.  Each handler takes one message.                               *)
(***************************************************************************)
ConcurrentTexts == { <<"H","i">>,
                     <<"w","h","y","?">>,
                     <<"w","h","a","t"," ","i","s"," ","t","h","e"," ","m","o","o","n","?">> }

NextConcurrent ==
    \/ \E h \in Handlers : \E text \in ConcurrentTexts : ReceiveMessage(h, "A", text)
    \/ \E h \in Handlers : RunStep(h)

SpecConcurrent == Init /\ [][NextConcurrent]_vars

(***************************************************************************)
(* The local handlers of lines 273-352 on their own: the message is in     *)
(* user_message and the routing step sets handled_locally and              *)
(* response_text.  The messages are phrases of the eight groups and of     *)
(* none, alone and joined in pairs, and some with capitals and blanks.     *)
(***************************************************************************)
ClassifyPhrases == { <<"u0433","u043e","u0439","u0434","u0430">>,
                     <<"w","h","o"," ","a","r","e"," ","y","o","u">>,
                     <<"u043a","u0442","u043e"," ","u0442","u044b">>,
                     <<"h","e","l","l","o">>,
                     <<"u043f","u0440","u0438","u0432","u0435","u0442">>,
                     <<"b","y","e">>,
                     <<"t","h","a","n","k","s">>,
                     <<"o","k">>,
                     <<"n","o">>,
                     <<"i"," ","a","m"," ","b","o","b">>,
                     <<"w","h","y","?">> }
ClassifyOthers == { <<" ","H","i"," ">>,
                    <<"H","E","L","L","O">>,
                    <<"u0413","u043e","u0439","u0434","u0430">>,
                    <<"O","k">>,
                    <<"u043f","u043e","u043a","u0430">>,
                    <<"u0441","u043f","u0430","u0441","u0438","u0431","u043e">>,
                    <<"u0434","u0430">>,
                    <<"u043d","u0435","u0442">>,
                    <<"u043c","u0435","u043d","u044f"," ","u0437","u043e","u0432","u0443","u0442"," ","u0430","u043d","u044f">>,
                    <<"g","o","o","d"," ","m","o","r","n","i","n","g">>,
                    <<"I","'","m"," ","h","e","r","e",","," ","w","h","o"," ","a","r","e"," ","y","o","u">> }
ClassifyTexts ==
    ClassifyPhrases \cup ClassifyOthers
        \cup { a \o <<" ">> \o b : a \in ClassifyPhrases, b \in ClassifyPhrases }

InitClassify ==
    /\ chat_data = [c \in {} |-> << >>]
    /\ total_requests = 0
    /\ total_tokens = 0
    /\ estimated_cost = 0
    /\ pc = [h \in Handlers |-> IF h = "h1" THEN "route" ELSE "idle"]
    /\ chat = [h \in Handlers |-> "A"]
    /\ \E text \in ClassifyTexts :
           user_message = [h \in Handlers |-> IF h = "h1" THEN text ELSE <<>>]
    /\ history = [h \in Handlers |-> <<>>]
    /\ history_reset_needed = [h \in Handlers |-> FALSE]
    /\ handled_locally = [h \in Handlers |-> FALSE]
    /\ response_text = [h \in Handlers |-> <<>>]
    /\ retry_count = [h \in Handlers |-> 0]
    /\ prior = [h \in Handlers |-> <<>>]
    /\ attempts = [h \in Handlers |-> <<>>]
    /\ reported = [h \in Handlers |-> NoUsage]
    /\ slept = [h \in Handlers |-> <<>>]
    /\ sent = [h \in Handlers |-> <<>>]
    /\ last_command = NoCommand

NextClassify == Route("h1")

SpecClassify == InitClassify /\ [][NextClassify]_vars

(***************************************************************************)
(* Two chats served together: handler "h1" takes a message of chat "A"     *)
(* and handler "h2" one of chat "B", and the command handlers of both      *)
(* chats run whenever the event loop is free.  context.chat_data is the    *)
(* dict of the update's chat.  Each chat starts with no history or with a  *)
(* history of two exchanges, as two earlier messages leave it, so that the *)
(* next message causes a trim or, if long, a reset.                        *)
(***************************************************************************)
TwoExchanges == << SYSTEM_PROMPT_MESSAGE,
                   Message("user", <<"w","h","y","?">>),
                   Message("assistant", <<"4","2",".">>),
                   Message("user", <<"H","i">>),
                   Message("assistant", <<"H","e","l","l","o","!">>) >>
TwoChatTexts == { <<"H","i">>,
                  <<"w","h","y","?">>,
                  <<"p","l","e","a","s","e"," ","e","x","p","l","a","i","n"," ","h","o","w"," ","t","h","e"," ","t","i","d","e","s"," ","f","o","l","l","o","w"," ","t","h","e"," ","m","o","o","n">> }
TwoChatOutcomes ==
    { o \in Outcomes : /\ o.kind \in { "ok", "transport" }
                       /\ o.usage = NoUsage
                       /\ o.content \in { <<>>, <<"4","2",".">> } }
ChatOf(h) == IF h = "h1" THEN "A" ELSE "B"

InitTwoChats ==
    /\ \E started \in SUBSET Chats : chat_data = [c \in started |-> TwoExchanges]
    /\ total_requests = 0
    /\ total_tokens = 0
    /\ estimated_cost = 0
    /\ pc = [h \in Handlers |-> "idle"]
    /\ chat = [h \in Handlers |-> "A"]
    /\ user_message = [h \in Handlers |-> <<>>]
    /\ history = [h \in Handlers |-> <<>>]
    /\ history_reset_needed = [h \in Handlers |-> FALSE]
    /\ handled_locally = [h \in Handlers |-> FALSE]
    /\ response_text = [h \in Handlers |-> <<>>]
    /\ retry_count = [h \in Handlers |-> 0]
    /\ prior = [h \in Handlers |-> <<>>]
    /\ attempts = [h \in Handlers |-> <<>>]
    /\ reported = [h \in Handlers |-> NoUsage]
    /\ slept = [h \in Handlers |-> <<>>]
    /\ sent = [h \in Handlers |-> <<>>]
    /\ last_command = NoCommand

NextTwoChats ==
    \/ \E h \in Handlers : \E text \in TwoChatTexts : ReceiveMessage(h, ChatOf(h), text)
    \/ \E h \in Handlers : \E ok \in BOOLEAN : SendTyping(h, ok)
    \/ \E h \in Handlers : BoundHistory(h)
    \/ \E h \in Handlers : \E ok \in BOOLEAN : SendResetNotice(h, ok)
    \/ \E h \in Handlers : Route(h)
    \/ \E h \in Handlers : CompleteEntry(h)
    \/ \E h \in Handlers : \E o \in TwoChatOutcomes : Post(h, o)
    \/ \E h \in Handlers : AppendAssistant(h)
    \/ \E h \in Handlers : \E ok \in BOOLEAN : SendReply(h, ok)
    \/ \E h \in Handlers : \E ok \in BOOLEAN : SendErrorNotice(h, ok)
    \/ \E c \in Chats : start(c)
    \/ \E c \in Chats : restart(c)
    \/ \E c \in Chats : clear_command(c)
    \/ \E c \in Chats : help_command(c)
    \/ \E c \in Chats : stats_command(c)

SpecTwoChats == InitTwoChats /\ [][NextTwoChats]_vars

(***************************************************************************)
(* Properties.                                                             *)
(***************************************************************************)
Seed == << SYSTEM_PROMPT_MESSAGE >>
\* The handler has applied the history limits to its message (line 269 or 265 passed).
Bounded(h) == pc[h] \in { "reset_notice", "route", "complete", "post", "backoff",
                          "append", "reply", "error_notice", "done" }
\* The step is handler h running lines 231-269.
BoundStep(h) == pc[h] = "bound" /\ pc'[h] # "bound"
\* The candidate history of line 234 for handler h, before the limits.
Candidate(h) == Setdefault(chat[h]) \o << [role |-> "user", content |-> user_message[h]] >>
\* get_perplexity_response has returned to handler h after at least one attempt.
Returned(h) == pc[h] = "append" /\ attempts[h] # <<>>
AllTimedOut(h) == \A i \in 1..Len(attempts[h]) : attempts[h][i] = "timeout"

\* C1: every stored history starts with the system message and holds no
\* other system message.
C1_SystemFirstAndOnly ==
    \A c \in DOMAIN chat_data :
        /\ Len(chat_data[c]) >= 1
        /\ chat_data[c][1] = SYSTEM_PROMPT_MESSAGE
        /\ \A i \in 2..Len(chat_data[c]) : chat_data[c][i].role # "system"

\* A stored history at the count limit whose first turn is an assistant turn:
\* it went through a trim.
C1_Witness ==
    \E c \in DOMAIN chat_data :
        /\ Len(chat_data[c]) = MAX_HISTORY_MESSAGES + 1
        /\ chat_data[c][2].role = "assistant"

\* C2: when the limits call for a reset, the stored history becomes the seed
\* (the user message is not stored), the message is neither routed locally
\* nor sent to the API, the usage counters stay as they are, and the only reply
\* is the reset notice.
C2_ResetStopsProcessing ==
    [][ \A h \in Handlers :
          /\ (BoundStep(h) /\ history_reset_needed'[h]) =>
                 /\ chat_data'[chat[h]] = Seed
                 /\ pc'[h] = "reset_notice"
          /\ history_reset_needed'[h] =>
                 /\ UNCHANGED counters
                 /\ pc'[h] \in { "reset_notice", "done", "raised" }
                 /\ attempts'[h] = <<>>
                 /\ ~handled_locally'[h]
                 /\ response_text'[h] = <<>>
                 /\ sent'[h] \in { <<>>, << RESET_NOTICE >> }
                 /\ (pc'[h] = "done" => sent'[h] = << RESET_NOTICE >>)
      ]_vars

C2_Witness ==
    \E h \in Handlers :
        /\ history_reset_needed[h]
        /\ pc[h] = "done"
        /\ sent[h] = << RESET_NOTICE >>
        /\ chat_data[chat[h]] = Seed
        /\ Len(prior[h]) > 1

\* C3: appending a user message to a stored history of MAX_HISTORY_MESSAGES+1
\* entries, the candidate being within the token limit, stores exactly
\* MAX_HISTORY_MESSAGES+1 entries: the system message, then the last
\* MAX_HISTORY_MESSAGES entries of the candidate in order, the new user
\* message last.  Whatever is stored by lines 268-269 has at most that many.
C3_TrimAtCeiling ==
    [][ \A h \in Handlers :
          /\ (/\ BoundStep(h)
              /\ Len(Setdefault(chat[h])) = MAX_HISTORY_MESSAGES + 1
              /\ estimate_tokens(Candidate(h)) <= MAX_HISTORY_TOKENS_ESTIMATE) =>
                 LET old == Setdefault(chat[h])
                     cand == Candidate(h)
                     new == chat_data'[chat[h]]
                 IN  /\ ~history_reset_needed'[h]
                     /\ Len(new) = MAX_HISTORY_MESSAGES + 1
                     /\ new[1] = old[1]
                     /\ new[1] = SYSTEM_PROMPT_MESSAGE
                     /\ \A i \in 1..MAX_HISTORY_MESSAGES :
                            new[1 + i] = cand[Len(cand) - MAX_HISTORY_MESSAGES + i]
                     /\ new[Len(new)] = [role |-> "user", content |-> user_message[h]]
          /\ (BoundStep(h) /\ ~history_reset_needed'[h]) =>
                 Len(chat_data'[chat[h]]) <= MAX_HISTORY_MESSAGES + 1
      ]_vars

\* A second append in a row at the ceiling: the history read was itself the
\* result of a trim, and the one stored has the same length.
C3_Witness ==
    \E h \in Handlers :
        /\ pc[h] = "route"
        /\ Len(prior[h]) = MAX_HISTORY_MESSAGES + 1
        /\ prior[h][2].role = "assistant"
        /\ Len(history[h]) = MAX_HISTORY_MESSAGES + 1
        /\ chat_data[chat[h]] = history[h]

\* C4 as stated: a stored history within both limits is never reset by the
\* next user message.
C4_NeverResetsWithinLimits ==
    \A h \in Handlers :
        (/\ Bounded(h)
         /\ estimate_tokens(prior[h]) <= MAX_HISTORY_TOKENS_ESTIMATE
         /\ Len(prior[h]) <= MAX_HISTORY_MESSAGES + 1) => ~history_reset_needed[h]

\* C4 amended: no reset when the candidate (stored history plus the new user
\* message) is within the token limit and the stored history within the count limit.
C4_NoResetWhenCandidateFits ==
    \A h \in Handlers :
        (/\ Bounded(h)
         /\ estimate_tokens(prior[h] \o << [role |-> "user", content |-> user_message[h]] >>)
                <= MAX_HISTORY_TOKENS_ESTIMATE
         /\ Len(prior[h]) <= MAX_HISTORY_MESSAGES + 1) => ~history_reset_needed[h]

\* The case with a trim: the stored history was at the count limit.
C4_Witness ==
    \E h \in Handlers :
        /\ Bounded(h)
        /\ Len(prior[h]) = MAX_HISTORY_MESSAGES + 1
        /\ estimate_tokens(prior[h] \o << [role |-> "user", content |-> user_message[h]] >>)
               <= MAX_HISTORY_TOKENS_ESTIMATE
        /\ ~history_reset_needed[h]

\* What the next get of chat c returns misses something the present one holds.
Removed(c) == ~IsPrefixOf(Setdefault(c), Setdefault(c)')
\* A handler resets chat c and goes on to send the reset notice.
ResetWithNotice(c) ==
    \E h \in Handlers :
        /\ chat[h] = c
        /\ BoundStep(h)
        /\ history_reset_needed'[h]
        /\ pc'[h] = "reset_notice"
        /\ chat_data'[c] = Seed
\* /start, /restart or /clear pops the history of chat c.
CommandReset(c) == c \in DOMAIN chat_data /\ c \notin DOMAIN chat_data' /\ UNCHANGED pc
\* A handler stores the system message and the last MAX_HISTORY_MESSAGES
\* entries of an over-long candidate, and sends nothing about it.
SilentTrim(c) ==
    \E h \in Handlers :
        /\ chat[h] = c
        /\ BoundStep(h)
        /\ ~history_reset_needed'[h]
        /\ Len(Candidate(h)) > MAX_HISTORY_MESSAGES + 1
        /\ estimate_tokens(Candidate(h)) <= MAX_HISTORY_TOKENS_ESTIMATE
        /\ chat_data'[c] = << SYSTEM_PROMPT_MESSAGE >> \o
               SubSeq(Candidate(h), Len(Candidate(h)) - MAX_HISTORY_MESSAGES + 1, Len(Candidate(h)))
        /\ pc'[h] = "route"
        /\ UNCHANGED sent

\* C5 as stated: messages leave a stored history only by a full reset (one
\* with the reset notice, or one the user commanded).
C5_RemovedOnlyByReset ==
    [][ \A c \in Chats : Removed(c) => (ResetWithNotice(c) \/ CommandReset(c)) ]_vars

\* C5 amended: a candidate over the token limit is always reset with the
\* notice; messages leave a stored history only by such a reset, by a
\* commanded reset, or by the silent count trim.
C5_RemovedByResetOrTrim ==
    [][ /\ \A c \in Chats :
               Removed(c) => (ResetWithNotice(c) \/ CommandReset(c) \/ SilentTrim(c))
        /\ \A h \in Handlers :
               (BoundStep(h) /\ estimate_tokens(Candidate(h)) > MAX_HISTORY_TOKENS_ESTIMATE)
                   => ResetWithNotice(chat[h])
      ]_vars

\* A trim has dropped the oldest turn and nothing was sent about it.
C5_Witness ==
    \E h \in Handlers :
        /\ pc[h] = "route"
        /\ ~history_reset_needed[h]
        /\ Len(prior[h]) > MAX_HISTORY_MESSAGES
        /\ history[h][2] # prior[h][2]
        /\ sent[h] = <<>>

\* C6: no stored assistant turn holds a fallback string of the client (nor
\* any text with the "Sorry," prefix); the assistant turn is appended exactly
\* when the reply lacks the prefix, and otherwise the stored history still
\* ends with the user's message.  The handler never gets the "need a
\* message" string, which lacks the prefix: it never calls with fewer than
\* two messages.
FallbackStrings ==
    { TIMEOUT_REPLY, REQUEST_ERROR_REPLY, PARSING_ERROR_REPLY, UNEXPECTED_ERROR_REPLY }
HasSorryPrefix(text) == Len(text) >= 6 /\ SubSeq(text, 1, 6) = <<"S","o","r","r","y",",">>

C6_NoFallbackInHistory ==
    [][ /\ \A c \in DOMAIN chat_data' : \A i \in 1..Len(chat_data'[c]) :
               chat_data'[c][i].role = "assistant" =>
                   /\ chat_data'[c][i].content \notin FallbackStrings
                   /\ ~HasSorryPrefix(chat_data'[c][i].content)
        /\ \A h \in Handlers : response_text'[h] # NEED_MESSAGE
        /\ \A h \in Handlers : (pc[h] = "append" /\ pc'[h] # "append") =>
               LET c == chat[h]
                   userTurn == [role |-> "user", content |-> user_message[h]]
                   reply == [role |-> "assistant", content |-> response_text[h]]
               IN  IF HasSorryPrefix(response_text[h])
                   THEN /\ chat_data' = chat_data
                        /\ chat_data[c][Len(chat_data[c])] = userTurn
                   ELSE /\ chat_data'[c] = Append(chat_data[c], reply)
                        /\ chat_data[c][Len(chat_data[c])] = userTurn
      ]_vars

\* A malformed response after a timed-out attempt: the parsing-error string
\* was returned and the stored history ends with the user's message.
C6_Witness ==
    \E h \in Handlers :
        /\ pc[h] = "reply"
        /\ attempts[h] = << "timeout", "malformed" >>
        /\ response_text[h] = PARSING_ERROR_REPLY
        /\ chat_data[chat[h]][Len(chat_data[chat[h]])] = [role |-> "user", content |-> user_message[h]]

\* C7: a call whose attempts all timed out has made exactly 3 (max_retries)
\* attempts when it returns, and returns the timeout apology; while it runs
\* it has made at most as many.
C7_TimeoutAttempts ==
    \A h \in Handlers :
        /\ Len(attempts[h]) <= 3
        /\ (Returned(h) /\ AllTimedOut(h)) =>
               /\ Len(attempts[h]) = 3
               /\ max_retries = 3
               /\ response_text[h] = TIMEOUT_REPLY
        /\ (AllTimedOut(h) /\ Len(attempts[h]) = 3) =>
               /\ pc[h] \in { "append", "reply", "error_notice", "done" }
               /\ response_text[h] = TIMEOUT_REPLY

C7_Witness ==
    \E h \in Handlers :
        /\ Returned(h)
        /\ attempts[h] = << "timeout", "timeout", "timeout" >>
        /\ response_text[h] = TIMEOUT_REPLY

\* C8 as stated: a call whose attempts all timed out has slept 2, 4, 8 when
\* it returns.
C8_BackoffTwoFourEight ==
    \A h \in Handlers : (Returned(h) /\ AllTimedOut(h)) => slept[h] = << 2, 4, 8 >>

\* C8 amended: it has slept 2, 4: 2^k time units after the k-th timed-out
\* attempt for k < max_retries, and nothing after the last attempt.
C8_BackoffTwoFour ==
    \A h \in Handlers :
        /\ (Returned(h) /\ AllTimedOut(h)) => slept[h] = << 2, 4 >>
        /\ \A k \in 1..Len(slept[h]) :
               /\ slept[h][k] = 2 ^ k
               /\ k < max_retries
               /\ k <= Len(attempts[h])
               /\ attempts[h][k] = "timeout"

C8_Witness ==
    \E h \in Handlers :
        /\ Returned(h)
        /\ attempts[h] = << "timeout", "timeout", "timeout" >>
        /\ slept[h] = << 2, 4 >>

\* C9: an attempt that fails with a transport error other than a timeout is
\* the last attempt of its call: the call has returned the generic-error
\* string, and the only sleeps are those after the timed-out attempts before it.
C9_TransportErrorNotRetried ==
    \A h \in Handlers : \A i \in 1..Len(attempts[h]) :
        attempts[h][i] = "transport" =>
            /\ i = Len(attempts[h])
            /\ pc[h] \in { "append", "reply", "error_notice", "done" }
            /\ response_text[h] = REQUEST_ERROR_REPLY
            /\ Len(slept[h]) = i - 1
            /\ \A j \in 1..(i - 1) : attempts[h][j] = "timeout"

C9_Witness ==
    \E h \in Handlers :
        /\ pc[h] = "append"
        /\ attempts[h] = << "timeout", "transport" >>
        /\ slept[h] = << 2 >>
        /\ response_text[h] = REQUEST_ERROR_REPLY

\* C10: called with an empty or system-only message list, the call returns
\* the "need a message" string in one step, with no request attempt and the
\* usage counters as they were.
C10_NeedMessageWithoutRequest ==
    [][ \A h \in Handlers :
          /\ (pc[h] = "complete" /\ Len(history[h]) <= 1) =>
                 /\ pc'[h] = "append"
                 /\ response_text'[h] = NEED_MESSAGE
                 /\ attempts'[h] = <<>>
                 /\ slept'[h] = <<>>
                 /\ UNCHANGED counters
          /\ Len(history'[h]) <= 1 => (attempts'[h] = <<>> /\ pc'[h] \notin { "post", "backoff" })
      ]_vars

C10_Witness ==
    /\ pc["h1"] = "append"
    /\ history["h1"] = << SYSTEM_PROMPT_MESSAGE >>
    /\ response_text["h1"] = NEED_MESSAGE
    /\ attempts["h1"] = <<>>
    /\ total_requests = 1

\* The step is an attempt of handler h that ends the call with outcome kind k.
PostEnds(h, k) ==
    /\ pc[h] = "post"
    /\ pc'[h] = "append"
    /\ attempts'[h][Len(attempts'[h])] = k
\* The tokens of a usage entry: prompt plus completion, 0 when none is reported.
ReportedTokens(u) == IF u.present THEN u.prompt_tokens + u.completion_tokens ELSE 0

\* C11: a successful completion adds 1 to total_requests, the reported
\* prompt plus completion tokens (0 when no usage is reported; 150 for a
\* usage of 100 and 50) to total_tokens, and REQUEST_COST plus that many
\* millionths of TOKEN_COST_PER_MILLION to estimated_cost (kept here in
\* millionths of a dollar); no step ever decreases one of the three.
C11_CountersOnSuccess ==
    [][ /\ \A h \in Handlers :
              PostEnds(h, "ok") =>
                  /\ total_requests' = total_requests + 1
                  /\ total_tokens' = total_tokens + ReportedTokens(reported'[h])
                  /\ estimated_cost' = estimated_cost + REQUEST_COST
                         + ReportedTokens(reported'[h]) * TOKEN_COST_PER_MILLION
                  /\ (reported'[h].prompt_tokens = 100 /\ reported'[h].completion_tokens = 50)
                         => total_tokens' = total_tokens + 150
        /\ total_requests' >= total_requests
        /\ total_tokens' >= total_tokens
        /\ estimated_cost' >= estimated_cost
      ]_vars

\* Two completions have succeeded, one reporting a usage of 100 and 50 and
\* one reporting none.
C11_Witness ==
    \E h \in Handlers :
        /\ pc[h] = "append"
        /\ attempts[h] = << "ok" >>
        /\ total_requests = 2
        /\ total_tokens = 150
        /\ estimated_cost = 2 * REQUEST_COST + 150 * TOKEN_COST_PER_MILLION

BreaksPastSeventy(text, max_length) ==
    { i \in 0..(max_length - 1) :
          /\ 10 * i >= 7 * max_length
          /\ \E c \in { ".", "!", "?", "\n" } : RFind(Prefix(text, max_length), c) = i }
GreatestOf(S) == CHOOSE i \in S : \A j \in S : j <= i
\* The truncation that cuts at the greatest of those indexes.
TruncateAtGreatest(text, max_length) ==
    IF Len(text) <= max_length THEN text
    ELSE IF BreaksPastSeventy(text, max_length) = {}
         THEN Prefix(text, max_length) \o TRUNCATION_SUFFIX
         ELSE Prefix(text, GreatestOf(BreaksPastSeventy(text, max_length)) + 1)
                  \o TRUNCATION_SUFFIX

\* C13: for a text longer than max_length, truncate_text takes the last
\* occurrence of each of '.', '!', '?' and newline in text[:max_length] and,
\* among those at or past 70% of max_length, cuts at the greatest index,
\* returning the text up to and including it plus the suffix; with no such
\* occurrence it returns text[:max_length] plus the suffix.
C13_CutsAtGreatestBreak ==
    \A h \in Handlers :
        (pc[h] = "done" /\ Len(sent[h]) = 1) =>
            sent[h][1] = TruncateAtGreatest(response_text[h], TruncateLength)

\* C14: when a local handler answers the message (and the limits caused no
\* reset), no request is attempted, the usage counters stay as they are,
\* and the stored history afterwards ends with the user message followed by
\* an assistant message holding the canned reply.
C14_LocalReplyWithoutRequest ==
    [][ \A h \in Handlers :
          /\ (pc[h] = "route" /\ handled_locally'[h]) =>
                 /\ pc'[h] = "append"
                 /\ response_text'[h] = LocalResponse(user_message[h]).response_text
                 /\ UNCHANGED counters
          /\ handled_locally'[h] =>
                 /\ attempts'[h] = <<>>
                 /\ pc'[h] \notin { "complete", "post", "backoff" }
          /\ (pc[h] = "append" /\ handled_locally[h]) =>
                 /\ UNCHANGED counters
                 /\ LET stored == chat_data'[chat[h]]
                        n == Len(stored)
                    IN  /\ n >= 3
                        /\ stored[n - 1] = Message("user", user_message[h])
                        /\ stored[n] = Message("assistant", response_text[h])
                        /\ user_message[h] = <<"H","i">> =>
                               stored[n].content = <<"H","e","l","l","o","!">>
      ]_vars

\* A greeting answered locally after an earlier message went to the API: the
\* history ends with the greeting and its canned reply, one request counted.
C14_Witness ==
    \E h \in Handlers :
        /\ pc[h] = "reply"
        /\ handled_locally[h]
        /\ attempts[h] = <<>>
        /\ total_requests = 1
        /\ Len(chat_data[chat[h]]) = 4
        /\ chat_data[chat[h]][3] = Message("user", <<"H","i">>)
        /\ chat_data[chat[h]][4] = Message("assistant", <<"H","e","l","l","o","!">>)

\* What the message of handler h adds to the history: its user turn, and
\* its assistant turn unless the reply is a fallback ("Sorry, ...").
Turn(h) ==
    << Message("user", user_message[h]) >>
        \o (IF HasSorryPrefix(response_text[h]) THEN << >>
            ELSE << Message("assistant", response_text[h]) >>)
\* Handler h is past line 363 and its message caused neither reset nor trim.
StoredUntrimmed(h) ==
    /\ pc[h] \in { "reply", "error_notice", "done" }
    /\ ~history_reset_needed[h]
    /\ Len(prior[h]) + 1 <= MAX_HISTORY_MESSAGES + 1

C16_CommandsFrame ==
    [][ /\ \A c \in Chats :
              last_command' \in { Command(c, "start"), Command(c, "restart"),
                                  Command(c, "clear_command") } =>
                  /\ Setdefault(c)' = Seed
                  /\ \A b \in Chats \ {c} : Setdefault(b)' = Setdefault(b)
        /\ last_command'.name \in { "help_command", "stats_command" } =>
              UNCHANGED chat_data
        /\ last_command'.name # "none" =>
              UNCHANGED << counters, attempts, pc >>
      ]_vars

\* clear_command has run on a chat whose history held an exchange: the
\* history is back at the seed while the counters keep their values.
C16_Witness ==
    /\ last_command = Command("A", "clear_command")
    /\ Setdefault("A") = Seed
    /\ total_requests = 1
    /\ total_tokens = 150

\* The step is an attempt of handler h with outcome kind k.
PostWith(h, k) ==
    /\ pc[h] = "post"
    /\ pc'[h] # "post"
    /\ attempts'[h][Len(attempts'[h])] = k
\* The counters take the full update of lines 168-185 for usage entry u.
FullUpdate(u) ==
    /\ total_requests' = total_requests + 1
    /\ total_tokens' = total_tokens + ReportedTokens(u)
    /\ estimated_cost' = estimated_cost + REQUEST_COST
                             + ReportedTokens(u) * TOKEN_COST_PER_MILLION

\* C17 as stated: a call that returns a fallback string (timeout apology,
\* transport error, parsing error, unexpected-failure apology) leaves the
\* three usage counters unchanged.
C17_FallbackLeavesCounters ==
    [][ \A h \in Handlers :
          (pc[h] = "post" /\ pc'[h] = "append" /\ response_text'[h] \in FallbackStrings)
              => UNCHANGED counters ]_vars

\* C17, amended: the usage counters change only in an attempt whose
\* response was decoded.  A timed-out attempt and a transport error leave
\* all three unchanged; a malformed response, answered with the
\* parsing-error string, has been counted like a success (one request, its
\* reported tokens, its cost); an unexpected failure may come before the
\* update, after its first line, or after all of it.
C17_CountersByDecodedResponse ==
    [][ /\ \A h \in Handlers :
              /\ (PostWith(h, "timeout") \/ PostWith(h, "transport")) => UNCHANGED counters
              /\ PostEnds(h, "malformed") =>
                     /\ response_text'[h] = PARSING_ERROR_REPLY
                     /\ FullUpdate(reported'[h])
              /\ PostEnds(h, "unexpected") =>
                     /\ response_text'[h] = UNEXPECTED_ERROR_REPLY
                     /\ \/ UNCHANGED counters
                        \/ /\ total_requests' = total_requests + 1
                           /\ UNCHANGED << total_tokens, estimated_cost >>
                        \/ FullUpdate(reported'[h])
        /\ counters' # counters => \E h \in Handlers : pc[h] = "post" /\ pc'[h] = "append"
      ]_vars

\* A call answered with the parsing-error string whose response, with a
\* usage of 100 and 50, was counted.
C17_Witness ==
    \E h \in Handlers :
        /\ pc[h] = "append"
        /\ attempts[h] = << "malformed" >>
        /\ response_text[h] = PARSING_ERROR_REPLY
        /\ reported[h].present
        /\ total_requests = 1
        /\ total_tokens = 150
        /\ estimated_cost = REQUEST_COST + 150 * TOKEN_COST_PER_MILLION

\* The eight groups of local handlers, in the order of the source: whether
\* group k matches the normalised message q, and the replies group k gives.
GroupMatches(k, q) ==
    CASE k = 1 -> Contains(q, GOYDA)
      [] k = 2 -> \E phrase \in IDENTITY_PHRASES : Contains(q, phrase)
      [] k = 3 -> q \in GREETINGS \/ StartsWith(q, HELLO)
      [] k = 4 -> q \in FAREWELLS
      [] k = 5 -> q \in THANKS
      [] k = 6 -> q \in AFFIRMATIONS
      [] k = 7 -> q \in NEGATIONS
      [] k = 8 -> IsStatement(q)
GroupReplies(k) ==
    CASE k = 1 -> { GOYDA_REPLY }
      [] k = 2 -> { IDENTITY_REPLY_RU, IDENTITY_REPLY_EN }
      [] k = 3 -> { <<"u041f","u0440","u0438","u0432","u0435","u0442","!">>,
               <<"H","e","l","l","o","!">> }
      [] k = 4 -> { <<"u0414","u043e"," ","u0441","u0432","u0438","u0434","u0430","u043d","u0438","u044f","!">>,
               <<"G","o","o","d","b","y","e","!">> }
      [] k = 5 -> { <<"u041f","u043e","u0436","u0430","u043b","u0443","u0439","u0441","u0442","u0430",".">>,
               <<"Y","o","u","'","r","e"," ","w","e","l","c","o","m","e",".">> }
      [] k = 6 -> { <<"u041e","u043a",".">>,
               <<"O","k","a","y",".">> }
      [] k = 7 -> { <<"u041f","u043e","u043d","u044f","u0442","u043d","u043e",".">>,
               <<"U","n","d","e","r","s","t","o","o","d",".">> }
      [] k = 8 -> { <<"u041f","u043e","u043d","u044f","u0442","u043d","u043e",".">>,
               <<"N","o","t","e","d",".">> }
MatchingGroups(q) == { k \in 1..8 : GroupMatches(k, q) }
FirstGroup(q) == CHOOSE k \in MatchingGroups(q) : \A j \in MatchingGroups(q) : k <= j

\* C18: the local handlers are tried in the fixed order (a) to (h) and the
\* first group that matches answers: a message matching several groups
\* gets the reply of the earliest one (any message containing the trigger
\* of group (a) gets its reply, whatever else it contains), and a message
\* matching no group is not handled locally and goes to the API.
C18_FirstMatchingGroupWins ==
    \A h \in Handlers :
        (pc[h] \in { "append", "complete" } /\ user_message[h] # <<>>) =>
            LET q == Strip(Lower(user_message[h])) IN
            /\ MatchingGroups(q) = {} =>
                   (~handled_locally[h] /\ pc[h] = "complete")
            /\ MatchingGroups(q) # {} =>
                   /\ handled_locally[h]
                   /\ pc[h] = "append"
                   /\ response_text[h] \in GroupReplies(FirstGroup(q))
            /\ Contains(q, GOYDA) => response_text[h] = GOYDA_REPLY

\* A message that matches the identity group (b) and the statement group
\* (h) has been answered by group (b).
C18_Witness ==
    /\ pc["h1"] = "append"
    /\ user_message["h1"] = <<"i"," ","a","m"," ","b","o","b"," ","w","h","o"," ","a","r","e"," ","y","o","u">>
    /\ MatchingGroups(Strip(Lower(user_message["h1"]))) = { 2, 8 }
    /\ response_text["h1"] = IDENTITY_REPLY_EN

\* C19: a failure at any point of the per-message sequence (from the read
\* of the history at line 231 on: the limits and the reset notice, the
\* local handlers, the API call, the append, the truncation, the reply) is
\* caught in handle_message and answered with the "too long, please reset"
\* notice; no exception leaves the handler once the sequence has begun.
C19_FailuresBecomeNotice ==
    [][ \A h \in Handlers :
          /\ pc'[h] = "raised" => pc[h] \in { "typing", "raised" }
          /\ (pc[h] = "reply" /\ pc'[h] # "done") => pc'[h] \in { "reply", "error_notice" }
          /\ (pc[h] = "reset_notice" /\ pc'[h] # "done") =>
                 pc'[h] \in { "reset_notice", "error_notice" }
      ]_vars

\* The candidate p cut down to the system message and its newest
\* MAX_HISTORY_MESSAGES entries.
CutToCount(p) == << p[1] >> \o LastN(p, MAX_HISTORY_MESSAGES)

\* C20: handle_message resets the history exactly when the token estimate
\* of the untrimmed candidate (stored history plus the new user message) is
\* over MAX_HISTORY_TOKENS_ESTIMATE.  The reset "still over the limit after
\* trimming by count" never happens: the trim is tried only on a candidate
\* within the token limit and never raises the estimate.  And a candidate
\* over the token limit is reset even if trimming by count would fit it.
C20_ResetIffCandidateOverTokens ==
    [][ \A h \in Handlers :
          BoundStep(h) =>
              LET candidate == Candidate(h)
                  over == estimate_tokens(candidate) > MAX_HISTORY_TOKENS_ESTIMATE
              IN  /\ history_reset_needed'[h] <=> over
                  /\ pc'[h] = "reset_notice" <=> over
                  /\ Len(candidate) > MAX_HISTORY_MESSAGES + 1 =>
                         /\ estimate_tokens(CutToCount(candidate)) <= estimate_tokens(candidate)
                         /\ ~over => estimate_tokens(CutToCount(candidate))
                                         <= MAX_HISTORY_TOKENS_ESTIMATE
      ]_vars

\* A reset of a candidate that is over the token limit and over the count
\* limit, and that trimming by count would have brought within the token
\* limit.
C20_Witness ==
    \E h \in Handlers :
        /\ pc[h] = "reset_notice"
        /\ history_reset_needed[h]
        /\ Len(prior[h]) + 1 > MAX_HISTORY_MESSAGES + 1
        /\ estimate_tokens(CutToCount(prior[h] \o << Message("user", user_message[h]) >>))
               <= MAX_HISTORY_TOKENS_ESTIMATE

\* Handler h is inside get_perplexity_response(messages=history).
InCall(h) == pc[h] \in { "complete", "post", "backoff" }

\* C21: every history handle_message passes to get_perplexity_response has
\* at least 2 and at most MAX_HISTORY_MESSAGES + 1 entries, a token
\* estimate of at most MAX_HISTORY_TOKENS_ESTIMATE, the system message at
\* index 0 and the current user message as its last entry; and a stored
\* history, the assistant reply included, never has more than
\* MAX_HISTORY_MESSAGES + 2 entries.
C21_RequestHistoryBounded ==
    /\ \A h \in Handlers :
           InCall(h) =>
               /\ Len(history[h]) >= 2
               /\ Len(history[h]) <= MAX_HISTORY_MESSAGES + 1
               /\ estimate_tokens(history[h]) <= MAX_HISTORY_TOKENS_ESTIMATE
               /\ history[h][1] = SYSTEM_PROMPT_MESSAGE
               /\ history[h][Len(history[h])] = Message("user", user_message[h])
    /\ \A c \in DOMAIN chat_data : Len(chat_data[c]) <= MAX_HISTORY_MESSAGES + 2

\* A call was made with a history at the count limit, cut down from a
\* longer candidate, and its reply was appended: the stored history has
\* MAX_HISTORY_MESSAGES + 2 entries.
C21_Witness ==
    \E h \in Handlers :
        /\ pc[h] = "reply"
        /\ attempts[h] # <<>>
        /\ Len(prior[h]) + 1 > MAX_HISTORY_MESSAGES + 1
        /\ Len(history[h]) = MAX_HISTORY_MESSAGES + 2
        /\ chat_data[chat[h]] = history[h]

\* The step belongs to chat c: a handle_message coroutine of that chat takes
\* it, or a command handler of that chat runs.
StepOfChat(c) ==
    \/ \E h \in Handlers : pc'[h] # pc[h] /\ (chat[h] = c \/ chat'[h] = c)
    \/ UNCHANGED pc /\ last_command'.chat = c /\ last_command'.name # "none"

\* C22: the chats are independent.  A step taken for one chat (a user
\* message with its reset, trim or assistant append, or a command) leaves
\* the stored history of every other chat as it was, however the events of
\* the two chats interleave: a chat's history changes only in a step of
\* its own.
C22_ChatsIndependent ==
    [][ \A c \in Chats :
          /\ Setdefault(c)' # Setdefault(c) => StepOfChat(c)
          /\ (c \in DOMAIN chat_data) # (c \in DOMAIN chat_data') => StepOfChat(c)
          /\ \A b \in Chats \ {c} :
                 (StepOfChat(c) /\ ~StepOfChat(b)) =>
                     /\ Setdefault(b)' = Setdefault(b)
                     /\ (b \in DOMAIN chat_data) = (b \in DOMAIN chat_data')
      ]_vars

\* The handlers of both chats are in flight: chat "A" has been reset and
\* its notice is not sent yet, chat "B" has been trimmed and holds the new
\* exchange; each history shows only its own chat's message.
C22_Witness ==
    /\ pc["h1"] = "reset_notice"
    /\ chat["h1"] = "A"
    /\ DOMAIN chat_data = { "A", "B" }
    /\ chat_data["A"] = Seed
    /\ pc["h2"] = "reply"
    /\ chat["h2"] = "B"
    /\ Len(prior["h2"]) = 5
    /\ chat_data["B"] = history["h2"]
    /\ Len(chat_data["B"]) = MAX_HISTORY_MESSAGES + 2
====
